---- MODULE Spec2Model ----
(***************************************************************************)
(* MemoryMix backend: the time-based track-to-photo matching engine        *)
(* (services/matching_service.py) over the listening-history store         *)
(* (services/lastfm_service.py, models.py).                                *)
(*                                                                         *)
(* Time is counted in whole seconds.  A datetime is a record               *)
(*   [clock |-> seconds of its wall-clock reading, aware |-> whether it    *)
(*    carries a tzinfo, off |-> the UTC offset of that tzinfo in seconds]. *)
(* Python floats are IEEE-754 binary64 values; the ones the score needs    *)
(* are non-negative and are held exactly as six base-2^16 limbs, the first *)
(* limb being the integer part (a fixed-point number with 80 fraction      *)
(* bits).  Every float operation is the exact operation followed by        *)
(* rounding to 53 significant bits, ties to even.                          *)
(***************************************************************************)
EXTENDS Integers, Sequences, FiniteSets, TLC

VARIABLES history, response, call, sessions, memories, photos, mappings

vars == <<history, response, call, sessions, memories, photos, mappings>>

\* The database sessions of running syncs, and the memory tables.
syncs == <<sessions>>
tables == <<memories, photos, mappings>>

(***************************************************************************)
(* Bounds of the model.                                                    *)
(***************************************************************************)
MaxHistory == 3
MaxItems == 2
MaxHours == 5
MaxLimit == 2
MaxDiff == 300

(***************************************************************************)
(* IEEE-754 binary64 arithmetic on non-negative values.                    *)
(***************************************************************************)
MantissaBits == 53
Base == 2^16
Limbs == 1..6
LastBit == 16 * 6 - 1

Abs(x) == IF x < 0 THEN -x ELSE x
Min(a, b) == IF a < b THEN a ELSE b
Max(a, b) == IF a > b THEN a ELSE b

\* Bit g of x, g = 0 the top bit of the integer limb, g = 15 the units bit.
LimbBit(x, g) == (x[(g \div 16) + 1] \div 2^(15 - (g % 16))) % 2

LimbZero == [i \in Limbs |-> 0]
LimbInt(n) == [i \in Limbs |-> IF i = 1 THEN n ELSE 0]

LimbAdd(a, b) ==
    LET c[i \in 1..7] == IF i = 7 THEN 0 ELSE (a[i] + b[i] + c[i + 1]) \div Base
    IN  [i \in Limbs |-> (a[i] + b[i] + c[i + 1]) % Base]

\* a - b for a >= b
LimbSub(a, b) ==
    LET w[i \in 1..7] == IF i = 7 THEN 0
                         ELSE IF a[i] - b[i] - w[i + 1] < 0 THEN 1 ELSE 0
    IN  [i \in Limbs |-> (Base + a[i] - b[i] - w[i + 1]) % Base]

\* a * k for a small natural k
LimbScale(a, k) ==
    LET c[i \in 1..7] == IF i = 7 THEN 0 ELSE (a[i] * k + c[i + 1]) \div Base
    IN  [i \in Limbs |-> (a[i] * k + c[i + 1]) % Base]

\* The first 96 bits of n / w (0 <= n, 0 < w < 2^15) and whether bits remain.
LimbQuot(n, w) ==
    LET r[i \in Limbs] == IF i = 1 THEN n % w ELSE (r[i - 1] * Base) % w
    IN  [bits  |-> [i \in Limbs |-> IF i = 1 THEN n \div w
                                     ELSE (r[i - 1] * Base) \div w],
         inexact |-> r[6] # 0]

\* Index of the leading one bit of x # 0.
LeadBit(x) ==
    LET i == CHOOSE j \in Limbs : x[j] # 0 /\ \A h \in 1..(j - 1) : x[h] = 0
        k == CHOOSE e \in 0..15 : 2^e <= x[i] /\ x[i] < 2^(e + 1)
    IN  16 * (i - 1) + (15 - k)

\* x rounded to MantissaBits significant bits, ties to even; sticky says
\* that x stands for a value slightly above its 96 bits.
Round53(x, sticky) ==
    IF x = LimbZero THEN x
    ELSE LET last == LeadBit(x) + MantissaBits - 1
         IN  IF last >= LastBit THEN x
             ELSE LET li    == (last \div 16) + 1
                      unit  == 2^(15 - (last % 16))
                      trunc == [i \in Limbs |->
                                   IF i < li THEN x[i]
                                   ELSE IF i = li THEN x[i] - (x[i] % unit)
                                   ELSE 0]
                      guard == LimbBit(x, last + 1)
                      rest  == sticky \/ \E g \in (last + 2)..LastBit : LimbBit(x, g) = 1
                      up    == guard = 1 /\ (rest \/ LimbBit(x, last) = 1)
                  IN  IF up THEN LimbAdd(trunc, [i \in Limbs |-> IF i = li THEN unit ELSE 0])
                      ELSE trunc

\* int / int true division, n >= 0, w > 0
FloatDiv(n, w) == LET q == LimbQuot(n, w) IN Round53(q.bits, q.inexact)
FloatAdd(a, b) == Round53(LimbAdd(a, b), FALSE)
\* a - b for a >= b
FloatSub(a, b) == Round53(LimbSub(a, b), FALSE)
FloatScale(a, k) == Round53(LimbScale(a, k), FALSE)
\* int(x) for x >= 0: truncation
FloatToInt(a) == a[1]

(***************************************************************************)
(* MatchingService.calculate_confidence_score                              *)
(***************************************************************************)
Returned(v) == [raised |-> "none", value |-> v]
Raised(e) == [raised |-> e, value |-> 0]

\* 100 * (1 - (time_diff_minutes / max_window_minutes)) truncated by int(),
\* for time_diff_minutes <= max_window_minutes and max_window_minutes # 0.
LinearDecay(d, w) ==
    IF w < 0
    THEN \* d <= w < 0: the quotient is >= 1, the product <= 0 (clamped below)
         0
    ELSE IF d < 0
    THEN FloatToInt(FloatScale(FloatAdd(LimbInt(1), FloatDiv(-d, w)), 100))
    ELSE FloatToInt(FloatScale(FloatSub(LimbInt(1), FloatDiv(d, w)), 100))

\* The decay computed from the wrong end: 100 * (d / w).
calculate_confidence_score_Rising(time_diff_minutes, max_window_minutes) ==
    IF time_diff_minutes > max_window_minutes THEN Returned(0)
    ELSE IF max_window_minutes = 0 THEN Raised("ZeroDivisionError")
    ELSE Returned(Max(0, Min(100,
            FloatToInt(FloatScale(FloatDiv(Abs(time_diff_minutes),
                                           Abs(max_window_minutes)), 100)))))

calculate_confidence_score(time_diff_minutes, max_window_minutes) ==
    IF time_diff_minutes > max_window_minutes THEN Returned(0)
    ELSE IF max_window_minutes = 0 THEN Raised("ZeroDivisionError")
    ELSE Returned(Max(0, Min(100, LinearDecay(time_diff_minutes, max_window_minutes))))

\* The scores the engine can ask for, computed once.
ScoreHours == {-1, 0} \cup (1..MaxHours)
ScoreDiffs == 0..(MaxDiff + 60)
ScoreTable ==
    [w \in {h * 60 : h \in ScoreHours} |->
        [d \in ScoreDiffs |-> calculate_confidence_score(d, w)]]
Score(d, w) ==
    IF w \in DOMAIN ScoreTable /\ d \in ScoreDiffs THEN ScoreTable[w][d]
    ELSE calculate_confidence_score(d, w)

(***************************************************************************)
(* datetime                                                                *)
(***************************************************************************)
Naive(c) == [clock |-> c, aware |-> FALSE, off |-> 0]
Aware(c, o) == [clock |-> c, aware |-> TRUE, off |-> o]
IsNaive(dt) == ~dt.aware

\* dt.replace(tzinfo=timezone.utc)
ReplaceTzUtc(dt) == Aware(dt.clock, 0)

\* dt + timedelta(seconds=s): the reading moves, the tzinfo stays
PlusSeconds(dt, s) == [dt EXCEPT !.clock = dt.clock + s]

\* (a - b).total_seconds(); Python refuses to subtract a naive and an aware
\* datetime.
DatetimeSub(a, b) ==
    IF IsNaive(a) /\ IsNaive(b) THEN Returned(a.clock - b.clock)
    ELSE IF IsNaive(a) \/ IsNaive(b) THEN Raised("TypeError")
    ELSE Returned((a.clock - a.off) - (b.clock - b.off))

\* Floor division (//) in place of int(x / k).
IntTrunc_Floor(x, k) == x \div k

\* int(x / k) for an integral x: the quotient truncated toward zero
IntTrunc(x, k) == IF x >= 0 THEN x \div k ELSE -((-x) \div k)

\* The track time left as it came.
calculate_time_difference_minutes_TrackAsIs(photo_time, track_time) ==
    LET p == IF IsNaive(photo_time) THEN ReplaceTzUtc(photo_time) ELSE photo_time
        delta == DatetimeSub(p, track_time)
    IN  IF delta.raised # "none" THEN delta
        ELSE Returned(Abs((IF delta.value >= 0 THEN delta.value \div 60
                           ELSE -((-delta.value) \div 60))))

(***************************************************************************)
(* MatchingService.calculate_time_difference_minutes                       *)
(***************************************************************************)
calculate_time_difference_minutes(photo_time, track_time) ==
    LET p == IF IsNaive(photo_time) THEN ReplaceTzUtc(photo_time) ELSE photo_time
        t == IF IsNaive(track_time) THEN ReplaceTzUtc(track_time) ELSE track_time
        delta == DatetimeSub(p, t)
    IN  IF delta.raised # "none" THEN delta
        ELSE Returned(Abs(IntTrunc(delta.value, 60)))

(***************************************************************************)
(* The listening-history store (models.ListeningHistory) and what Last.fm  *)
(* reports for each account.                                               *)
(***************************************************************************)
Users == {1, 2}

Noon == 12 * 3600
Minutes(m) == m * 60
Hours(h) == h * 3600

\* A scrobble as user.getRecentTracks reports it (uts = 0: no date).
Scrobble(n, a, t) == [name |-> n, artist |-> a, uts |-> t, nowplaying |-> FALSE]
NowPlaying(n, a) == [name |-> n, artist |-> a, uts |-> 0, nowplaying |-> TRUE]

Scrobbles(u) ==
    IF u = 1
    THEN { Scrobble("a", "x", Noon - Minutes(170)),
           Scrobble("b", "x", Noon - Minutes(12)),
           Scrobble("a", "x", Noon - Minutes(10)),
           Scrobble("b", "y", Noon - Minutes(10)),
           Scrobble("a", "y", Noon + Minutes(11) + 59),
           Scrobble("b", "x", Noon + Minutes(180)),
           Scrobble("a", "x", Noon + Minutes(200)),
           NowPlaying("a", "x") }
    ELSE { Scrobble("a", "x", Noon - Minutes(10)) }

\* datetime.utcfromtimestamp(int(uts)): a naive datetime reading UTC
utcfromtimestamp(uts) == Naive(uts)

\* f"{track_name}|{artist_name}|{int(uts)}"
TrackKey(item) == <<item.name, item.artist, item.uts>>

HistoryEntry(id, u, item) ==
    [id |-> id, user_id |-> u, track_id |-> TrackKey(item),
     track_name |-> item.name, artist_name |-> item.artist,
     played_at |-> utcfromtimestamp(item.uts)]

\* The rows of a sequence of rows, as a set.
Rows(tbl) == {tbl[i] : i \in 1..Len(tbl)}

\* The value a DateTime column or bind parameter has in the SQLite store:
\* the wall-clock reading, the tzinfo dropped.
DbTime(dt) == dt.clock

\* The lookup for a stored entry of the item.
ExistingEntries(tbl, u, item) ==
    {r \in Rows(tbl) :
        /\ r.user_id = u
        /\ r.track_id = TrackKey(item)
        /\ DbTime(r.played_at) = DbTime(utcfromtimestamp(item.uts))}

\* LastfmService.sync_listening_history: the rows one run adds to the
\* session, item by item; the lookup sees the rows the run has added
\* (the session autoflushes), and fails when it finds more than one row.
RECURSIVE SyncItems(_, _, _, _)
SyncItems(tbl, u, items, i) ==
    IF i > Len(items) THEN Returned(tbl)
    ELSE LET item == items[i]
         IN  IF item.nowplaying \/ item.uts = 0
             THEN SyncItems(tbl, u, items, i + 1)
             ELSE LET existing == ExistingEntries(tbl, u, item)
                  IN  IF Cardinality(existing) > 1 THEN Raised("MultipleResultsFound")
                      ELSE IF existing # {} THEN SyncItems(tbl, u, items, i + 1)
                      ELSE SyncItems(Append(tbl, HistoryEntry(Len(tbl) + 1, u, item)),
                                     u, items, i + 1)

\* LastfmService.get_tracks_by_time_window: the orders the query may return
\* the matching rows in (ORDER BY played_at leaves rows with equal played_at
\* in any order).
RECURSIVE Orderings(_)
Orderings(S) ==
    IF S = {} THEN {<<>>}
    ELSE LET first == {r \in S : \A q \in S : DbTime(r.played_at) <= DbTime(q.played_at)}
         IN  UNION {{<<r>> \o rest : rest \in Orderings(S \ {r})} : r \in first}

get_tracks_by_time_window(tbl, user_id, start_time, end_time) ==
    Orderings({r \in Rows(tbl) :
                  /\ r.user_id = user_id
                  /\ DbTime(r.played_at) >= DbTime(start_time)
                  /\ DbTime(r.played_at) <= DbTime(end_time)})

(***************************************************************************)
(* MatchingService.suggest_tracks_for_photo                                *)
(***************************************************************************)
DefaultMaxSuggestions == 5

Suggestion(track, score, diff) ==
    [track_id |-> track.id, track_name |-> track.track_name,
     artist_name |-> track.artist_name, played_at |-> track.played_at,
     confidence_score |-> score, time_difference_minutes |-> diff]

\* list.sort(key=confidence_score, reverse=True): a stable sort, so x goes
\* behind every element whose score is at least its own.
\* Equal scores not kept in order: x goes ahead of the elements of its score.
InsertByScore_TiesFirst(sorted, x) ==
    LET ahead == {i \in 1..Len(sorted) : sorted[i].confidence_score > x.confidence_score}
        k == Cardinality(ahead)
    IN  SubSeq(sorted, 1, k) \o <<x>> \o SubSeq(sorted, k + 1, Len(sorted))

InsertByScore(sorted, x) ==
    LET ahead == {i \in 1..Len(sorted) : sorted[i].confidence_score >= x.confidence_score}
        k == Cardinality(ahead)
    IN  SubSeq(sorted, 1, k) \o <<x>> \o SubSeq(sorted, k + 1, Len(sorted))

RECURSIVE SortByScore(_)
SortByScore(s) ==
    IF s = <<>> THEN <<>>
    ELSE InsertByScore(SortByScore(SubSeq(s, 1, Len(s) - 1)), s[Len(s)])

\* The slice taken one element too long.
SliceTo_OneMore(s, n) ==
    IF n >= 0 THEN SubSeq(s, 1, Min(n + 1, Len(s)))
    ELSE SubSeq(s, 1, Max(0, Len(s) + n + 1))

\* s[:n]
SliceTo(s, n) ==
    IF n >= 0 THEN SubSeq(s, 1, Min(n, Len(s)))
    ELSE SubSeq(s, 1, Max(0, Len(s) + n))

\* One turn of the loop over the fetched tracks: the suggestions appended so
\* far (before), extended by the track when its score is above 0; an
\* exception ends the loop.
\* The window not passed on: the score taken with the default 180 minutes.
ScoreOf_DefaultWindow(diff, window_minutes) ==
    IF diff.raised # "none" THEN diff ELSE Score(diff.value, 180)

ScoreOf(diff, window_minutes) ==
    IF diff.raised # "none" THEN diff ELSE Score(diff.value, window_minutes)

\* The filter written as score >= 0.
AppendScored_KeepsZero(before, track, diff, score) ==
    IF before.raised # "none" THEN before
    ELSE IF score.raised # "none" THEN score
    ELSE IF score.value >= 0
    THEN Returned(Append(before.value, Suggestion(track, score.value, diff.value)))
    ELSE before

AppendScored(before, track, diff, score) ==
    IF before.raised # "none" THEN before
    ELSE IF score.raised # "none" THEN score
    ELSE IF score.value > 0
    THEN Returned(Append(before.value, Suggestion(track, score.value, diff.value)))
    ELSE before

\* Only the minutes component of the gap kept, its whole hours dropped.
TrackDiff_MinutesOfHour(photo_time, track) ==
    LET diff == calculate_time_difference_minutes(photo_time, track.played_at)
    IN  IF diff.raised # "none" THEN diff ELSE Returned(diff.value % 60)

TrackDiff(photo_time, track) ==
    calculate_time_difference_minutes(photo_time, track.played_at)

RECURSIVE ScoreTracks(_, _, _, _)
ScoreTracks(tracks, photo_time, window_minutes, i) ==
    IF i = 0 THEN Returned(<<>>)
    ELSE AppendScored(ScoreTracks(tracks, photo_time, window_minutes, i - 1),
                      tracks[i],
                      TrackDiff(photo_time, tracks[i]),
                      ScoreOf(TrackDiff(photo_time, tracks[i]), window_minutes))

\* The best suggestion looked up before the list is known to hold one.
SortScored_BestOfEmpty(scored) ==
    IF scored.raised # "none" THEN scored
    ELSE IF scored.value = <<>> THEN Raised("IndexError")
    ELSE Returned(SortByScore(scored.value))

SortScored(scored) ==
    IF scored.raised # "none" THEN scored ELSE Returned(SortByScore(scored.value))

\* The suggestions before the final slice.
RankedSuggestions(tracks, photo_time, time_window_hours) ==
    SortScored(ScoreTracks(tracks, photo_time, time_window_hours * 60, Len(tracks)))

SliceRanked(ranked, max_suggestions) ==
    IF ranked.raised # "none" THEN ranked
    ELSE Returned(SliceTo(ranked.value, max_suggestions))

suggest_tracks_for_photo(tracks, photo_time, time_window_hours, max_suggestions) ==
    SliceRanked(RankedSuggestions(tracks, photo_time, time_window_hours), max_suggestions)

(***************************************************************************)
(* State, inputs and actions                                               *)
(***************************************************************************)
NoResponse == [op |-> "none"]
NoCall == [fn |-> "none"]

Sessions == {1, 2}
IdleSession == [pc |-> "idle"]

Init ==
    /\ history = <<>>
    /\ response = NoResponse
    /\ call = NoCall
    /\ sessions = [s \in Sessions |-> IdleSession]
    /\ memories = {}
    /\ photos = {}
    /\ mappings = {}

\* The pages one sync run fetches, as one list of items.
Pages(u) == UNION {[1..n -> Scrobbles(u)] : n \in 1..MaxItems}

\* LastfmService.sync_listening_history (one session, committed at the end;
\* an exception leaves the store as it was).
SyncResponse(u, before, run) ==
    [op |-> "sync_listening_history", user_id |-> u, raised |-> run.raised,
     tracks_added |-> IF run.raised = "none" THEN Len(run.value) - Len(before) ELSE 0]

Committed(before, run) == IF run.raised = "none" THEN run.value ELSE before

SyncListeningHistory(u, items) ==
    LET run == SyncItems(history, u, items, 1)
    IN  /\ response = NoResponse
        /\ Len(Committed(history, run)) <= MaxHistory
        /\ history' = Committed(history, run)
        /\ response' = SyncResponse(u, history, run)
        /\ UNCHANGED <<call, syncs, tables>>

PhotoTimes == {Naive(Noon), Aware(Noon, 0), Aware(Noon + Hours(1), Hours(1))}
WindowHours == {-1, 0, 1, 3}
SuggestionLimits == (1..MaxLimit) \cup {DefaultMaxSuggestions}

SuggestResponse(u, photo_time, time_window_hours, max_suggestions, tracks, out) ==
    [op |-> "suggest_tracks_for_photo", user_id |-> u,
     photo_time |-> photo_time,
     time_window_hours |-> time_window_hours,
     max_suggestions |-> max_suggestions,
     tracks |-> tracks,
     raised |-> out.raised,
     suggestions |-> IF out.raised = "none" THEN out.value ELSE <<>>]

\* One call of MatchingService.suggest_tracks_for_photo for a photo taken at
\* photo_time.
SuggestTracksForPhoto(u, photo_time, time_window_hours, max_suggestions) ==
    /\ response = NoResponse
    /\ \E tracks \in get_tracks_by_time_window(
                        history, u,
                        PlusSeconds(photo_time, -Hours(time_window_hours)),
                        PlusSeconds(photo_time, Hours(time_window_hours))) :
          response' = SuggestResponse(u, photo_time, time_window_hours,
                                      max_suggestions, tracks,
                                      suggest_tracks_for_photo(tracks, photo_time,
                                          time_window_hours, max_suggestions))
    /\ UNCHANGED <<history, call, syncs, tables>>

\* The request is over: its result has gone to the caller.
Return ==
    /\ response # NoResponse
    /\ response' = NoResponse
    /\ UNCHANGED <<history, call, syncs, tables>>

Next ==
    \/ \E u \in Users : \E items \in Pages(u) : SyncListeningHistory(u, items)
    \/ \E u \in Users : \E p \in PhotoTimes : \E h \in WindowHours :
          \E m \in SuggestionLimits : SuggestTracksForPhoto(u, p, h, m)
    \/ Return

Spec == Init /\ [][Next]_vars

\* Calls of the two pure functions of the engine.
ScoreCall(d, w) ==
    /\ call = NoCall
    /\ call' = [fn |-> "calculate_confidence_score", time_diff_minutes |-> d,
                max_window_minutes |-> w, result |-> Score(d, w)]
    /\ UNCHANGED <<history, response, syncs, tables>>

ClockReadings ==
    {Noon + s : s \in {-Hours(1), -120, -119, -61, -60, -59, -1, 0, 1, 59, 60, 61, 119, 120, Hours(1)}}
DateTimes ==
    {Naive(c) : c \in ClockReadings} \cup {Aware(c, 0) : c \in ClockReadings}
        \cup {Aware(c, Hours(1)) : c \in ClockReadings}

DiffCall(p, t) ==
    /\ call = NoCall
    /\ call' = [fn |-> "calculate_time_difference_minutes", photo_time |-> p,
                track_time |-> t, result |-> calculate_time_difference_minutes(p, t)]
    /\ UNCHANGED <<history, response, syncs, tables>>

\* The call is over.
ReturnCall ==
    /\ call # NoCall
    /\ call' = NoCall
    /\ UNCHANGED <<history, response, syncs, tables>>

NextScore ==
    \/ \E h \in ScoreHours : \E d \in 0..MaxDiff : ScoreCall(d, h * 60)
    \/ ReturnCall
SpecScore == Init /\ [][NextScore]_vars

NextDiff ==
    \/ \E p \in DateTimes : \E t \in DateTimes : DiffCall(p, t)
    \/ ReturnCall
SpecDiff == Init /\ [][NextDiff]_vars

(***************************************************************************)
(* Sync runs, each in a database session of its own (database.get_db):     *)
(* the rows a run adds stay in its session, seen by its own lookups only,  *)
(* until its commit puts them into the store.                              *)
(***************************************************************************)
MaxStored == 3

\* The scrobbles the runs of this part fetch.
RecentScrobbles(u) ==
    IF u = 1
    THEN { Scrobble("a", "x", Noon - Minutes(10)),
           Scrobble("b", "y", Noon - Minutes(10)),
           NowPlaying("a", "x") }
    ELSE { Scrobble("a", "x", Noon - Minutes(10)) }

RecentPages(u) == UNION {[1..n -> RecentScrobbles(u)] : n \in 1..MaxItems}

\* The rows a session's query sees: the committed ones and, the session
\* flushing before every query, the ones it has added itself.
\* No flush before the query: the committed rows only.
SessionRows_NoAutoflush(committed, pending) == committed

SessionRows(committed, pending) == committed \o pending

\* The rows of a session as the store numbers them.
Numbered(committed, pending) ==
    [k \in 1..Len(pending) |-> [pending[k] EXCEPT !.id = Len(committed) + k]]

\* The items the running sessions other than s may still add.
Reserved(s) ==
    LET n(t) == IF t # s /\ sessions[t].pc = "loop" THEN Len(sessions[t].items) ELSE 0
    IN  n(1) + n(2)

\* The run starts: the pages are fetched (lines 99-109).
BeginSync(s, u, items) ==
    /\ sessions[s].pc = "idle"
    /\ Len(history) + Reserved(s) + Len(items) <= MaxStored
    /\ sessions' = [sessions EXCEPT ![s] =
                        [pc |-> "loop", user_id |-> u, items |-> items, i |-> 1,
                         pending |-> <<>>]]
    /\ UNCHANGED <<history, response, call, tables>>

SessionDone(ses, raised, added) ==
    [pc |-> "done", user_id |-> ses.user_id, items |-> ses.items,
     raised |-> raised, tracks_added |-> added]

\* One turn of the loop over the fetched items (lines 111-171).
ItemResult(ses, item, existing) ==
    IF item.nowplaying \/ item.uts = 0 THEN [ses EXCEPT !.i = @ + 1]
    ELSE IF Cardinality(existing) > 1 THEN SessionDone(ses, "MultipleResultsFound", 0)
    ELSE IF existing # {} THEN [ses EXCEPT !.i = @ + 1]
    ELSE [ses EXCEPT !.i = @ + 1,
                     !.pending = Append(@, HistoryEntry(0, ses.user_id, item))]

SyncItem(s) ==
    /\ sessions[s].pc = "loop"
    /\ sessions[s].i <= Len(sessions[s].items)
    /\ sessions' = [sessions EXCEPT ![s] =
          ItemResult(sessions[s], sessions[s].items[sessions[s].i],
                     ExistingEntries(
                        Numbered(<<>>, SessionRows(history, sessions[s].pending)),
                        sessions[s].user_id,
                        sessions[s].items[sessions[s].i]))]
    /\ UNCHANGED <<history, response, call, tables>>

\* await db.commit(); return tracks_added (lines 173-174)
CommitSync(s) ==
    /\ sessions[s].pc = "loop"
    /\ sessions[s].i > Len(sessions[s].items)
    /\ history' = history \o Numbered(history, sessions[s].pending)
    /\ sessions' = [sessions EXCEPT ![s] =
                        SessionDone(sessions[s], "none", Len(sessions[s].pending))]
    /\ UNCHANGED <<response, call, tables>>

\* The run's result has gone to its caller and its session is closed.
FinishSync(s) ==
    /\ sessions[s].pc = "done"
    /\ sessions' = [sessions EXCEPT ![s] = IdleSession]
    /\ UNCHANGED <<history, response, call, tables>>

NextSync ==
    \/ \E s \in Sessions : \E u \in Users : \E items \in RecentPages(u) :
          BeginSync(s, u, items)
    \/ \E s \in Sessions : SyncItem(s)
    \/ \E s \in Sessions : CommitSync(s)
    \/ \E s \in Sessions : FinishSync(s)
SpecSync == Init /\ [][NextSync]_vars

\* Runs one after another: a run starts when no other run is under way.
BeginSyncAlone(s, u, items) ==
    /\ \A t \in Sessions : sessions[t].pc # "loop"
    /\ BeginSync(s, u, items)

NextSeqSync ==
    \/ \E s \in Sessions : \E u \in Users : \E items \in RecentPages(u) :
          BeginSyncAlone(s, u, items)
    \/ \E s \in Sessions : SyncItem(s)
    \/ \E s \in Sessions : CommitSync(s)
    \/ \E s \in Sessions : FinishSync(s)
SpecSeqSync == Init /\ [][NextSeqSync]_vars

(***************************************************************************)
(* Memories, photos and track-photo mappings (models.py) and the handlers  *)
(* of routers/memories.py and routers/mappings.py.  A table is the set of  *)
(* its rows; a request runs in one session and commits at its end.         *)
(***************************************************************************)
MaxRows == 1
MaxPhotos == 2

\* The plays of each account in this part: one page, synced as a whole.
LibraryPage(u) ==
    IF u = 1
    THEN << Scrobble("b", "x", Noon - Minutes(12)),
            Scrobble("a", "y", Noon + Minutes(11) + 59) >>
    ELSE << Scrobble("a", "x", Noon - Minutes(10)) >>

\* PhotoBase.creation_time as the request gives it.
CreationTimes == {Naive(Noon), Aware(Noon + Hours(1), Hours(1)), Naive(Noon + Hours(6))}

\* The value a DateTime column gives back: the reading stored, no tzinfo.
Stored(dt) == Naive(DbTime(dt))

\* The id the store gives the next row of a table (INTEGER PRIMARY KEY).
NextId(tbl) ==
    IF tbl = {} THEN 1
    ELSE (CHOOSE i \in {r.id : r \in tbl} : \A r \in tbl : r.id <= i) + 1

\* A column without a value (NULL).
None == -1

MemoryRow(id, u, title) == [id |-> id, user_id |-> u, title |-> title]
PhotoRow(id, memory_id, creation_time) ==
    [id |-> id, memory_id |-> memory_id, creation_time |-> Stored(creation_time)]
MappingRow(id, memory_id, photo_id, track_id, auto, score) ==
    [id |-> id, memory_id |-> memory_id, photo_id |-> photo_id,
     track_id |-> track_id, is_auto_suggested |-> auto, confidence_score |-> score]

\* The tables as one record, as a session holds them before its commit.
Db(ms, ps, ts) == [memories |-> ms, photos |-> ps, mappings |-> ts]

\* The results suggest_tracks_for_photo may return on the stored history.
SuggestOutcomes(u, photo_time, time_window_hours, max_suggestions) ==
    {suggest_tracks_for_photo(tracks, photo_time, time_window_hours, max_suggestions) :
        tracks \in get_tracks_by_time_window(
                      history, u,
                      PlusSeconds(photo_time, -Hours(time_window_hours)),
                      PlusSeconds(photo_time, Hours(time_window_hours)))}

\* create_memory, lines 160-170: the mapping of the best suggestion, when
\* there is one.
AutoMapping(db, memory_id, photo_id, out) ==
    IF out.value = <<>> THEN db
    ELSE [db EXCEPT !.mappings = @ \cup
            {MappingRow(NextId(db.mappings), memory_id, photo_id,
                        out.value[1].track_id, TRUE,
                        out.value[1].confidence_score)}]

\* The title of the memory of the photo at position idx.
MemoryTitle(title, n, idx) == IF n > 1 THEN <<title, idx>> ELSE <<title, 0>>

\* One turn of create_memory's loop for a photo (lines 121-172): the memory
\* and the photo are added and flushed, then the best track is matched.
WithPhoto(db, u, title, n, idx, creation_time) ==
    [db EXCEPT !.memories = @ \cup {MemoryRow(NextId(db.memories), u,
                                              MemoryTitle(title, n, idx))},
               !.photos = @ \cup {PhotoRow(NextId(db.photos), NextId(db.memories),
                                           creation_time)}]

RECURSIVE CreateMemories(_, _, _, _, _)
CreateMemories(db, u, title, creation_times, idx) ==
    IF idx > Len(creation_times) THEN {Returned(db)}
    ELSE UNION {
           IF out.raised # "none" THEN {out}
           ELSE CreateMemories(
                   AutoMapping(WithPhoto(db, u, title, Len(creation_times), idx,
                                         creation_times[idx]),
                               NextId(db.memories), NextId(db.photos), out),
                   u, title, creation_times, idx + 1)
           : out \in SuggestOutcomes(u, creation_times[idx], 3, 1)}

\* create_memory: what the request may leave in the tables.
create_memory(db, u, title, creation_times) ==
    IF creation_times = <<>>
    THEN {Returned([db EXCEPT !.memories = @ \cup
                       {MemoryRow(NextId(db.memories), u, <<title, 0>>)}])}
    ELSE CreateMemories(db, u, title, creation_times, 1)

Ids(tbl) == {r.id : r \in tbl}

CreateMemoryResponse(u, creation_times, out) ==
    [op |-> "create_memory", user_id |-> u, creation_times |-> creation_times,
     status |-> IF out.raised = "none" THEN 200 ELSE 500,
     created |-> IF out.raised = "none" THEN Ids(out.value.memories) \ Ids(memories)
                 ELSE {}]

Commit(out) ==
    IF out.raised = "none"
    THEN /\ memories' = out.value.memories
         /\ photos' = out.value.photos
         /\ mappings' = out.value.mappings
    ELSE UNCHANGED tables

\* Tables of at most cap rows with ids up to cap + 1.
InBounds(db, cap) ==
    \A tbl \in {db.memories, db.photos, db.mappings} :
       Cardinality(tbl) <= cap /\ NextId(tbl) <= cap + 2

CreateMemory(u, creation_times, cap) ==
    /\ response = NoResponse
    /\ \E out \in create_memory(Db(memories, photos, mappings), u, "trip", creation_times) :
          /\ out.raised = "none" => InBounds(out.value, cap)
          /\ Commit(out)
          /\ response' = CreateMemoryResponse(u, creation_times, out)
    /\ UNCHANGED <<history, call, syncs>>

\* The sync of an account's page, as a request of this part.
SyncLibrary(u) == SyncListeningHistory(u, LibraryPage(u))

PhotoLists(n) == UNION {[1..k -> CreationTimes] : k \in 0..n}

RowIds == 1..(MaxRows + 1)
TrackIds == 1..MaxHistory

\* select(Memory).where(Memory.id == memory_id, Memory.user_id == user.id)
\* The owner left out of the query.
OwnedMemory_AnyOwner(u, memory_id) == {m \in memories : m.id = memory_id}

OwnedMemory(u, memory_id) == {m \in memories : m.id = memory_id /\ m.user_id = u}

\* select(TrackPhotoMapping).join(Memory).where(TrackPhotoMapping.id ==
\* mapping_id, Memory.user_id == user.id)
\* The join with the memory left out.
OwnedMapping_AnyOwner(u, mapping_id) == {t \in mappings : t.id = mapping_id}

OwnedMapping(u, mapping_id) ==
    {t \in mappings :
        /\ t.id = mapping_id
        /\ \E m \in memories : m.id = t.memory_id /\ m.user_id = u}

Request(op, u, id, status) == [op |-> op, user_id |-> u, id |-> id, status |-> status]

\* GET /memories/{memory_id}
GetMemory(u, memory_id) ==
    /\ response = NoResponse
    /\ response' = Request("get_memory", u, memory_id,
                           IF OwnedMemory(u, memory_id) = {} THEN 404 ELSE 200)
    /\ UNCHANGED <<history, call, syncs, tables>>

\* PUT /memories/{memory_id}
UpdateMemory(u, memory_id, title) ==
    /\ response = NoResponse
    /\ IF OwnedMemory(u, memory_id) = {}
       THEN /\ response' = Request("update_memory", u, memory_id, 404)
            /\ UNCHANGED tables
       ELSE /\ response' = Request("update_memory", u, memory_id, 200)
            /\ memories' = (memories \ OwnedMemory(u, memory_id))
                              \cup {[m EXCEPT !.title = <<title, 0>>] :
                                       m \in OwnedMemory(u, memory_id)}
            /\ UNCHANGED <<photos, mappings>>
    /\ UNCHANGED <<history, call, syncs>>

\* The photos a deleted memory takes with it, and the mappings that go
\* with the memory or with one of those photos (cascade="all, delete-orphan").
PhotosOf(memory_id) == {ph \in photos : ph.memory_id = memory_id}
MappingsGoneWith(memory_id) ==
    {t \in mappings : t.memory_id = memory_id
                        \/ \E ph \in PhotosOf(memory_id) : t.photo_id = ph.id}

\* DELETE /memories/{memory_id}
DeleteMemory(u, memory_id) ==
    /\ response = NoResponse
    /\ IF OwnedMemory(u, memory_id) = {}
       THEN /\ response' = Request("delete_memory", u, memory_id, 404)
            /\ UNCHANGED tables
       ELSE /\ response' = Request("delete_memory", u, memory_id, 200)
            /\ memories' = memories \ OwnedMemory(u, memory_id)
            /\ photos' = photos \ PhotosOf(memory_id)
            /\ mappings' = mappings \ MappingsGoneWith(memory_id)
    /\ UNCHANGED <<history, call, syncs>>

\* POST /mappings
CreateMapping(u, memory_id, photo_id, track_id, auto, score) ==
    /\ response = NoResponse
    /\ IF OwnedMemory(u, memory_id) = {}
       THEN /\ response' = Request("create_mapping", u, memory_id, 404)
            /\ UNCHANGED tables
       ELSE /\ Cardinality(mappings) < MaxRows
            /\ NextId(mappings) <= MaxRows + 1
            /\ response' = Request("create_mapping", u, memory_id, 200)
            /\ mappings' = mappings \cup
                  {MappingRow(NextId(mappings), memory_id, photo_id, track_id,
                              auto, score)}
            /\ UNCHANGED <<memories, photos>>
    /\ UNCHANGED <<history, call, syncs>>

\* GET /mappings/{mapping_id}
GetMapping(u, mapping_id) ==
    /\ response = NoResponse
    /\ response' = Request("get_mapping", u, mapping_id,
                           IF OwnedMapping(u, mapping_id) = {} THEN 404 ELSE 200)
    /\ UNCHANGED <<history, call, syncs, tables>>

\* TrackPhotoMappingUpdate as model_dump(exclude_unset=True) gives it: the
\* fields the request body sets.
MappingUpdates ==
    [fields : SUBSET {"track_id", "is_auto_suggested"},
     track_id : TrackIds, is_auto_suggested : BOOLEAN]

\* update_mapping, lines 97-104
\* The body's own is_auto_suggested kept when it also sets track_id.
Updated_BodyFlagWins(t, upd) ==
    [t EXCEPT !.track_id = IF "track_id" \in upd.fields THEN upd.track_id ELSE @,
              !.is_auto_suggested =
                  IF "is_auto_suggested" \in upd.fields THEN upd.is_auto_suggested
                  ELSE IF "track_id" \in upd.fields THEN FALSE
                  ELSE @]

Updated(t, upd) ==
    [t EXCEPT !.track_id = IF "track_id" \in upd.fields THEN upd.track_id ELSE @,
              !.is_auto_suggested =
                  IF "track_id" \in upd.fields THEN FALSE
                  ELSE IF "is_auto_suggested" \in upd.fields THEN upd.is_auto_suggested
                  ELSE @]

\* The request PUT /mappings/{mapping_id} with its body, and its status.
UpdateRequest(u, mapping_id, upd, status) ==
    [op |-> "update_mapping", user_id |-> u, id |-> mapping_id, status |-> status,
     body |-> upd]

\* PUT /mappings/{mapping_id}
UpdateMapping(u, mapping_id, upd) ==
    /\ response = NoResponse
    /\ IF OwnedMapping(u, mapping_id) = {}
       THEN /\ response' = UpdateRequest(u, mapping_id, upd, 404)
            /\ UNCHANGED tables
       ELSE /\ response' = UpdateRequest(u, mapping_id, upd, 200)
            /\ mappings' = (mappings \ OwnedMapping(u, mapping_id))
                              \cup {Updated(t, upd) : t \in OwnedMapping(u, mapping_id)}
            /\ UNCHANGED <<memories, photos>>
    /\ UNCHANGED <<history, call, syncs>>

\* DELETE /mappings/{mapping_id}
DeleteMapping(u, mapping_id) ==
    /\ response = NoResponse
    /\ IF OwnedMapping(u, mapping_id) = {}
       THEN /\ response' = Request("delete_mapping", u, mapping_id, 404)
            /\ UNCHANGED tables
       ELSE /\ response' = Request("delete_mapping", u, mapping_id, 200)
            /\ mappings' = mappings \ OwnedMapping(u, mapping_id)
            /\ UNCHANGED <<memories, photos>>
    /\ UNCHANGED <<history, call, syncs>>

\* GET /mappings/memory/{memory_id}
GetMemoryMappings(u, memory_id) ==
    /\ response = NoResponse
    /\ response' = Request("get_memory_mappings", u, memory_id,
                           IF OwnedMemory(u, memory_id) = {} THEN 404 ELSE 200)
    /\ UNCHANGED <<history, call, syncs, tables>>

NextMem ==
    \/ \E u \in Users : SyncLibrary(u)
    \/ \E u \in Users : \E ps \in PhotoLists(1) : CreateMemory(u, ps, MaxRows)
    \/ \E u \in Users : \E id \in RowIds : GetMemory(u, id)
    \/ \E u \in Users : \E id \in RowIds : UpdateMemory(u, id, "renamed")
    \/ \E u \in Users : \E id \in RowIds : DeleteMemory(u, id)
    \/ \E u \in Users : \E m, ph \in RowIds : \E t \in TrackIds :
          CreateMapping(u, m, ph, t, FALSE, None)
    \/ \E u \in Users : \E id \in RowIds : GetMapping(u, id)
    \/ \E u \in Users : \E id \in RowIds : \E upd \in MappingUpdates :
          UpdateMapping(u, id, upd)
    \/ \E u \in Users : \E id \in RowIds : DeleteMapping(u, id)
    \/ \E u \in Users : \E id \in RowIds : GetMemoryMappings(u, id)
    \/ Return
SpecMem == Init /\ [][NextMem]_vars

\* The same handlers with every memory created from one photo and the
\* mapping requests naming photo 1 and play 1 or 2.
OnePhoto == <<Naive(Noon)>>
TrackUpdates ==
    [fields : SUBSET {"track_id", "is_auto_suggested"},
     track_id : {2}, is_auto_suggested : BOOLEAN]

NextOwner ==
    \/ \E u \in Users : CreateMemory(u, OnePhoto, MaxRows)
    \/ \E u \in Users : \E id \in RowIds : GetMemory(u, id)
    \/ \E u \in Users : \E id \in RowIds : UpdateMemory(u, id, "renamed")
    \/ \E u \in Users : \E id \in RowIds : DeleteMemory(u, id)
    \/ \E u \in Users : \E m \in RowIds : CreateMapping(u, m, 1, 1, FALSE, None)
    \/ \E u \in Users : \E id \in RowIds : GetMapping(u, id)
    \/ \E u \in Users : \E id \in RowIds : \E upd \in TrackUpdates :
          UpdateMapping(u, id, upd)
    \/ \E u \in Users : \E id \in RowIds : DeleteMapping(u, id)
    \/ \E u \in Users : \E id \in RowIds : GetMemoryMappings(u, id)
    \/ Return
SpecOwner == Init /\ [][NextOwner]_vars

(***************************************************************************)
(* The matching requests over stored photos:                               *)
(* MatchingService.auto_suggest_mappings_for_memory and                    *)
(* GET /memories/{memory_id}/suggestions.                                  *)
(***************************************************************************)
\* A dict, as a function of its keys; d[k] = v.
EmptyDict == <<>>
DictPut(d, k, v) == [x \in DOMAIN d \cup {k} |-> IF x = k THEN v ELSE d[x]]

\* The suggestions of one more photo put into the dict (line 111); an
\* exception ends the loop.
\* Each play suggested for one photo only: the plays of the earlier photos
\* left out.
PutSuggestions_EachPlayOnce(before, photo, out) ==
    IF before.raised # "none" THEN before
    ELSE IF out.raised # "none" THEN out
    ELSE Returned(DictPut(before.value, photo.id,
            SelectSeq(out.value,
                      LAMBDA x : \A k \in DOMAIN before.value :
                                    \A i \in 1..Len(before.value[k]) :
                                       before.value[k][i].track_id # x.track_id)))

PutSuggestions(before, photo, out) ==
    IF before.raised # "none" THEN before
    ELSE IF out.raised # "none" THEN out
    ELSE Returned(DictPut(before.value, photo.id, out.value))

\* MatchingService.auto_suggest_mappings_for_memory: the results it may
\* return for the first i photos of the list.
RECURSIVE auto_suggest_mappings_for_memory(_, _, _, _)
auto_suggest_mappings_for_memory(photo_list, u, time_window_hours, i) ==
    IF i = 0 THEN {Returned(EmptyDict)}
    ELSE {PutSuggestions(before, photo_list[i], out) :
             before \in auto_suggest_mappings_for_memory(photo_list, u,
                                                         time_window_hours, i - 1),
             out \in SuggestOutcomes(u, photo_list[i].creation_time,
                                     time_window_hours, DefaultMaxSuggestions)}

\* The lists of different rows of a table, up to n rows long.
RECURSIVE ListsOf(_, _)
ListsOf(S, n) ==
    IF n = 0 \/ S = {} THEN {<<>>}
    ELSE {<<>>} \cup UNION {{<<r>> \o rest : rest \in ListsOf(S \ {r}, n - 1)} : r \in S}

\* The tables after a matching request: it adds nothing to its session and
\* commits nothing.
\* The best suggestion of every photo saved as a mapping.
AfterMatching_SaveBest(db, photo_list, out) ==
    IF out.raised # "none" \/ photo_list = <<>> THEN db
    ELSE IF out.value[photo_list[1].id] = <<>> THEN db
    ELSE [db EXCEPT !.mappings = @ \cup
            {MappingRow(NextId(db.mappings), photo_list[1].memory_id, photo_list[1].id,
                        out.value[photo_list[1].id][1].track_id, TRUE,
                        out.value[photo_list[1].id][1].confidence_score)}]

AfterMatching(db, photo_list, out) == db

AutoSuggestResponse(u, photo_list, time_window_hours, out) ==
    [op |-> "auto_suggest_mappings_for_memory", user_id |-> u,
     photos |-> photo_list, time_window_hours |-> time_window_hours,
     raised |-> out.raised,
     suggestions_by_photo |-> IF out.raised = "none" THEN out.value ELSE EmptyDict]

\* One call of MatchingService.auto_suggest_mappings_for_memory.
AutoSuggestMappingsForMemory(u, photo_list, time_window_hours) ==
    /\ response = NoResponse
    /\ photo_list # <<>>
    /\ \E out \in auto_suggest_mappings_for_memory(photo_list, u, time_window_hours,
                                                   Len(photo_list)) :
          /\ response' = AutoSuggestResponse(u, photo_list, time_window_hours, out)
          /\ Commit(Returned(AfterMatching(Db(memories, photos, mappings),
                                           photo_list, out)))
    /\ UNCHANGED <<history, call, syncs>>

\* The response body of the endpoint (lines 364-376).
PhotoSuggestions(photo_list, by_photo) ==
    [k \in 1..Len(photo_list) |->
        [photo_id |-> photo_list[k].id, suggested_tracks |-> by_photo[photo_list[k].id]]]

SuggestionsResponse(u, memory_id, time_window_hours, status, body) ==
    [op |-> "get_track_suggestions", user_id |-> u, id |-> memory_id,
     time_window_hours |-> time_window_hours, status |-> status, body |-> body]

\* GET /memories/{memory_id}/suggestions
GetTrackSuggestions(u, memory_id, time_window_hours) ==
    /\ response = NoResponse
    /\ IF OwnedMemory(u, memory_id) = {}
       THEN /\ response' = SuggestionsResponse(u, memory_id, time_window_hours, 404, <<>>)
            /\ UNCHANGED tables
       ELSE IF PhotosOf(memory_id) = {}
       THEN /\ response' = SuggestionsResponse(u, memory_id, time_window_hours, 200, <<>>)
            /\ UNCHANGED tables
       ELSE \E photo_list \in ListsOf(PhotosOf(memory_id), Cardinality(PhotosOf(memory_id))) :
               /\ Len(photo_list) = Cardinality(PhotosOf(memory_id))
               /\ \E out \in auto_suggest_mappings_for_memory(
                                photo_list, u, time_window_hours, Len(photo_list)) :
                     /\ response' =
                           IF out.raised # "none"
                           THEN SuggestionsResponse(u, memory_id, time_window_hours,
                                                    500, <<>>)
                           ELSE SuggestionsResponse(u, memory_id, time_window_hours, 200,
                                                    PhotoSuggestions(photo_list, out.value))
                     /\ Commit(Returned(AfterMatching(Db(memories, photos, mappings),
                                                      photo_list, out)))
    /\ UNCHANGED <<history, call, syncs>>

MatchWindows == {1, 3}

\* This part looks at the memories of one create_memory request.
CreateFirstMemories(u, creation_times) ==
    /\ memories = {}
    /\ CreateMemory(u, creation_times, MaxPhotos)

NextMatch ==
    \/ \E u \in Users : SyncLibrary(u)
    \/ \E u \in Users : \E ps \in PhotoLists(MaxPhotos) : CreateFirstMemories(u, ps)
    \/ \E u \in Users : \E p \in CreationTimes : \E h \in MatchWindows :
          \E m \in {1, DefaultMaxSuggestions} : SuggestTracksForPhoto(u, p, h, m)
    \/ \E u \in Users : \E ps \in ListsOf(photos, 2) : \E h \in MatchWindows :
          AutoSuggestMappingsForMemory(u, ps, h)
    \/ \E u \in Users : \E id \in 1..MaxPhotos : \E h \in MatchWindows :
          GetTrackSuggestions(u, id, h)
    \/ Return
SpecMatch == Init /\ [][NextMatch]_vars

\* create_memory for photos whose capture time carries an offset from UTC
\* (PhotoBase.creation_time parses any ISO 8601 datetime).
ZonedTimes == CreationTimes \cup {Aware(Noon + Hours(3), Hours(4))}

ZonedLists == UNION {[1..k -> ZonedTimes] : k \in 0..MaxPhotos}

NextAuto ==
    \/ \E u \in Users : SyncLibrary(u)
    \/ \E u \in Users : \E ps \in ZonedLists : CreateFirstMemories(u, ps)
    \/ Return
SpecAuto == Init /\ [][NextAuto]_vars

(***************************************************************************)
(* GET /lastfm/history/by-date                                             *)
(***************************************************************************)
\* timedelta(days=1), in seconds
Day == 24 * 3600

\* What Last.fm reports for each account around the end of 1970-01-01, with
\* names that differ in case only.
DayScrobbles(u) ==
    IF u = 1
    THEN { Scrobble("a", "x", Noon - Minutes(10)),
           Scrobble("A", "X", Noon - Minutes(10)),
           Scrobble("A", "x", Noon + Minutes(5)),
           Scrobble("b", "x", Day - 1),
           Scrobble("b", "x", Day),
           Scrobble("a", "y", Day + Noon) }
    ELSE { Scrobble("a", "x", Noon - Minutes(20)),
           Scrobble("c", "x", Noon) }

DayPages(u) == UNION {[1..n -> DayScrobbles(u)] : n \in 1..MaxItems}

\* The date parameter of the request.
Dates == {"1970-01-01", "1970-01-02", "01/01/1970"}

\* datetime.strptime(date, "%Y-%m-%d").date(), as the number of days since
\* 1970-01-01.
strptime(date) ==
    CASE date = "1970-01-01" -> Returned(0)
      [] date = "1970-01-02" -> Returned(1)
      [] OTHER -> Raised("ValueError")

\* datetime.combine(target_date, datetime.min.time())
day_start(target_date) == Naive(target_date * Day)
day_end(target_date) == PlusSeconds(day_start(target_date), Day)

\* str.lower() on the names Last.fm reports here
lower(s) ==
    CASE s = "A" -> "a"
      [] s = "X" -> "x"
      [] OTHER -> s

\* The query of get_tracks_by_date: the orders it may return the rows in.
TracksOfDay(tbl, user_id, start_time, end_time) ==
    Orderings({r \in Rows(tbl) :
                  /\ r.user_id = user_id
                  /\ DbTime(r.played_at) >= DbTime(start_time)
                  /\ DbTime(r.played_at) < DbTime(end_time)})

\* The key compared as the names are stored.
NameKey_AsStored(t) == <<t.track_name, t.artist_name>>

NameKey(t) == <<lower(t.track_name), lower(t.artist_name)>>

\* The loop over the first i tracks: a track is kept when no kept track has
\* its key (seen holds the keys of the kept tracks).
RECURSIVE unique_tracks(_, _)
unique_tracks(tracks, i) ==
    IF i = 0 THEN <<>>
    ELSE LET kept == unique_tracks(tracks, i - 1)
         IN  IF \E j \in 1..Len(kept) : NameKey(kept[j]) = NameKey(tracks[i])
             THEN kept
             ELSE Append(kept, tracks[i])

ByDateResponse(u, date, status, tracks) ==
    [op |-> "get_tracks_by_date", user_id |-> u, date |-> date,
     status |-> status, tracks |-> tracks]

GetTracksByDate(u, date) ==
    /\ response = NoResponse
    /\ IF strptime(date).raised # "none"
       THEN response' = ByDateResponse(u, date, 400, <<>>)
       ELSE \E tracks \in TracksOfDay(history, u,
                                       day_start(strptime(date).value),
                                       day_end(strptime(date).value)) :
               response' = ByDateResponse(u, date, 200,
                                          unique_tracks(tracks, Len(tracks)))
    /\ UNCHANGED <<history, call, syncs, tables>>

NextDate ==
    \/ \E u \in Users : \E items \in DayPages(u) : SyncListeningHistory(u, items)
    \/ \E u \in Users : \E date \in Dates : GetTracksByDate(u, date)
    \/ Return
SpecDate == Init /\ [][NextDate]_vars

(***************************************************************************)
(* Properties                                                              *)
(***************************************************************************)
IsScoreCall == call.fn = "calculate_confidence_score"
IsDiffCall == call.fn = "calculate_time_difference_minutes"
IsSuggest == response.op = "suggest_tracks_for_photo"

\* n / m (n >= 0, m > 0) rounded to the nearest integer, halves to even
RoundNearest(n, m) ==
    LET q == n \div m
        r == n % m
    IN  IF 2 * r < m THEN q
        ELSE IF 2 * r > m THEN q + 1
        ELSE IF q % 2 = 0 THEN q ELSE q + 1

\* C1: for a window W > 0 and 0 <= d <= W, calculate_confidence_score(d, W)
\* is 100 * (1 - d / W) rounded to the nearest integer (and within 0..100).
C1_ScoreIsRoundedDecay ==
    (IsScoreCall /\ call.max_window_minutes > 0
        /\ call.time_diff_minutes <= call.max_window_minutes)
    => /\ call.result.raised = "none"
       /\ call.result.value =
             RoundNearest(100 * (call.max_window_minutes - call.time_diff_minutes),
                          call.max_window_minutes)

\* C2: for a window W > 0 the score of 0 is 100, the score of W is 0, and
\* no larger time difference has a larger score.
C2_ScoreEndpointsAndMonotone ==
    (IsScoreCall /\ call.max_window_minutes > 0)
    => /\ call.result.raised = "none"
       /\ call.time_diff_minutes = 0 => call.result.value = 100
       /\ call.time_diff_minutes = call.max_window_minutes => call.result.value = 0
       /\ \A d2 \in call.time_diff_minutes..(MaxDiff + 60) :
             /\ Score(d2, call.max_window_minutes).raised = "none"
             /\ Score(d2, call.max_window_minutes).value <= call.result.value

C2_Witness ==
    /\ IsScoreCall
    /\ call.max_window_minutes > 0
    /\ call.time_diff_minutes > 0
    /\ call.time_diff_minutes < call.max_window_minutes
    /\ call.result.value > 0
    /\ call.result.value < 100

\* The time difference the engine computes between the request's photo and
\* a stored play.
DiffOf(row) == calculate_time_difference_minutes(response.photo_time, row.played_at).value
OutsideWindow(row) == DiffOf(row) > response.time_window_hours * 60
Suggested(row) ==
    \E i \in 1..Len(response.suggestions) : response.suggestions[i].track_id = row.id
UserRows == {r \in Rows(history) : r.user_id = response.user_id}

\* C3: a play whose time difference to the photo exceeds the window scores 0
\* and is never suggested; when every play of the user is outside the window
\* the result is the empty list.
C3_OutsideWindowExcluded ==
    (IsSuggest /\ response.raised = "none")
    => /\ \A r \in UserRows :
             OutsideWindow(r)
             => /\ Score(DiffOf(r), response.time_window_hours * 60) = Returned(0)
                /\ ~Suggested(r)
       /\ (\A r \in UserRows : OutsideWindow(r)) => response.suggestions = <<>>

C3_Witness ==
    /\ IsSuggest
    /\ response.raised = "none"
    /\ response.time_window_hours = 3
    /\ \E i \in 1..Len(response.tracks) :
          OutsideWindow(response.tracks[i]) /\ DiffOf(response.tracks[i]) = 200
    /\ response.suggestions # <<>>

\* C4: a call with time_window_hours <= 0 ends in an error; it never returns
\* a suggestion list.
C4_NonPositiveWindowRejected ==
    (IsSuggest /\ response.time_window_hours <= 0) => response.raised # "none"

\* Position of the play with row id `id` in the candidate input.
TrackPos(id) == CHOOSE i \in 1..Len(response.tracks) : response.tracks[i].id = id

\* C5: the result is in descending order of confidence_score, suggestions
\* of equal score keep the relative order of their plays in the candidate
\* input, and that input is in ascending played_at order.
C5_SortedDescendingStable ==
    (IsSuggest /\ response.raised = "none")
    => /\ \A i, j \in 1..Len(response.suggestions) :
             i < j =>
                /\ response.suggestions[i].confidence_score
                      >= response.suggestions[j].confidence_score
                /\ response.suggestions[i].confidence_score
                      = response.suggestions[j].confidence_score
                   => TrackPos(response.suggestions[i].track_id)
                         < TrackPos(response.suggestions[j].track_id)
       /\ \A i, j \in 1..Len(response.tracks) :
             i < j => response.tracks[i].played_at.clock <= response.tracks[j].played_at.clock

C5_Witness ==
    /\ IsSuggest
    /\ response.raised = "none"
    /\ Len(response.suggestions) = 3
    /\ response.suggestions[2].confidence_score = response.suggestions[3].confidence_score
    /\ response.suggestions[1].confidence_score > response.suggestions[2].confidence_score
    /\ response.suggestions[1].played_at.clock > response.suggestions[2].played_at.clock

\* The ranked list the call's slice is taken from.
RankedOfResponse ==
    RankedSuggestions(response.tracks, response.photo_time, response.time_window_hours).value

\* C6: for max_suggestions >= 1 the result has at most max_suggestions
\* entries and is the first min(max_suggestions, n) entries of the ranked
\* list of the n qualifying candidates.
C6_TruncatedToMaxSuggestions ==
    (IsSuggest /\ response.raised = "none" /\ response.max_suggestions >= 1)
    => /\ Len(response.suggestions) <= response.max_suggestions
       /\ Len(response.suggestions)
             = Min(response.max_suggestions, Len(RankedOfResponse))
       /\ \A i \in 1..Len(response.suggestions) :
             response.suggestions[i] = RankedOfResponse[i]

C6_Witness ==
    /\ IsSuggest
    /\ response.raised = "none"
    /\ response.max_suggestions = 2
    /\ Len(RankedOfResponse) = 3
    /\ Len(response.suggestions) = 2

\* C7: every suggestion has a confidence_score in 0..100 and a
\* time_difference_minutes >= 0, and its score is
\* calculate_confidence_score of its own time difference and the call's
\* window.
C7_SuggestionFields ==
    (IsSuggest /\ response.raised = "none")
    => \A i \in 1..Len(response.suggestions) :
          LET s == response.suggestions[i]
          IN  /\ s.confidence_score \in 0..100
              /\ s.time_difference_minutes \in Nat
              /\ Score(s.time_difference_minutes, response.time_window_hours * 60)
                    = Returned(s.confidence_score)

C7_Witness ==
    /\ IsSuggest
    /\ response.raised = "none"
    /\ response.time_window_hours = 1
    /\ Len(response.suggestions) >= 2
    /\ \E i \in 1..Len(response.suggestions) :
          /\ response.suggestions[i].time_difference_minutes = 11
          /\ response.suggestions[i].played_at.clock = Noon + Minutes(11) + 59

\* The UTC instant of a datetime, a naive one read as UTC.
Instant(dt) == dt.clock - dt.off
CallGap == Abs(Instant(call.photo_time) - Instant(call.track_time))

\* C8: calculate_time_difference_minutes returns the gap between the two
\* instants in seconds, divided by 60 and rounded down: never negative,
\* never rounded up, the same with the arguments swapped.
C8_DiffIsFloorOfGap ==
    IsDiffCall
    => /\ call.result.raised = "none"
       /\ call.result.value = CallGap \div 60
       /\ call.result.value >= 0
       /\ call.result.value * 60 <= CallGap
       /\ calculate_time_difference_minutes(call.track_time, call.photo_time)
             = call.result
       /\ CallGap = 119 => call.result.value = 1

C8_Witness ==
    /\ IsDiffCall
    /\ Instant(call.track_time) - Instant(call.photo_time) = 119
    /\ call.result = Returned(1)

\* A naive datetime replaced by the aware UTC datetime of the same reading.
AsUtc(dt) == IF dt.aware THEN dt ELSE Aware(dt.clock, 0)

\* C9: calculate_time_difference_minutes rejects no combination of naive
\* and aware arguments, and returns what it returns when each naive
\* argument is replaced by the aware UTC datetime with the same reading.
C9_NaiveCoercedToUtc ==
    IsDiffCall
    => /\ call.result.raised = "none"
       /\ call.result = calculate_time_difference_minutes(AsUtc(call.photo_time),
                                                          AsUtc(call.track_time))

C9_Witness ==
    /\ IsDiffCall
    /\ call.photo_time.aware
    /\ call.photo_time.off # 0
    /\ ~call.track_time.aware
    /\ call.result.raised = "none"
    /\ call.result.value = 59

\* C10: with a photo at T, a window of 3 hours and a history of exactly two
\* plays, at T - 10 min and T - 170 min, the result is those two plays in
\* that order with scores 94 and 6.
C10_ExampleScores ==
    (/\ IsSuggest
     /\ response.photo_time \in {Naive(Noon), Aware(Noon, 0)}
     /\ response.time_window_hours = 3
     /\ response.max_suggestions = DefaultMaxSuggestions
     /\ Len(history) = 2
     /\ {r.played_at.clock : r \in UserRows} = {Noon - Minutes(10), Noon - Minutes(170)})
    => /\ response.raised = "none"
       /\ Len(response.suggestions) = 2
       /\ response.suggestions[1].played_at.clock = Noon - Minutes(10)
       /\ response.suggestions[2].played_at.clock = Noon - Minutes(170)
       /\ response.suggestions[1].confidence_score = 94
       /\ response.suggestions[2].confidence_score = 6

\* The orders the store may hand the request's candidates over in.
CandidateOrders ==
    get_tracks_by_time_window(
        history, response.user_id,
        PlusSeconds(response.photo_time, -Hours(response.time_window_hours)),
        PlusSeconds(response.photo_time, Hours(response.time_window_hours)))

\* The outcome of the request as a result record.
Outcome ==
    IF response.raised = "none" THEN Returned(response.suggestions)
    ELSE Raised(response.raised)

GapOf(row) == Abs(Instant(response.photo_time) - Instant(row.played_at))

\* C15: for a window > 0 and a limit >= 1, when no play of the user lies
\* within the window of the photo (or the store's query finds none), the
\* call returns the empty list and raises nothing.
C15_NoPlayInWindowGivesEmpty ==
    (IsSuggest /\ response.time_window_hours > 0 /\ response.max_suggestions >= 1)
    => /\ (\A r \in UserRows : GapOf(r) > Hours(response.time_window_hours))
          => (response.raised = "none" /\ response.suggestions = <<>>)
       /\ response.tracks = <<>>
          => (response.raised = "none" /\ response.suggestions = <<>>)

C15_Witness ==
    /\ IsSuggest
    /\ response.time_window_hours = 1
    /\ response.max_suggestions \in {1, DefaultMaxSuggestions}
    /\ UserRows # {}
    /\ \A r \in UserRows : GapOf(r) > Hours(1)
    /\ response.raised = "none"
    /\ response.suggestions = <<>>

\* C16: the returned list is sorted by proximity: time_difference_minutes
\* never decreases along it, and the first suggestion is as close to the
\* photo as any play of the user within the window.
C16_SortedByProximity ==
    (IsSuggest /\ response.raised = "none")
    => /\ \A i, j \in 1..Len(response.suggestions) :
             i < j => response.suggestions[i].time_difference_minutes
                         <= response.suggestions[j].time_difference_minutes
       /\ response.suggestions # <<>>
          => \A r \in UserRows :
                GapOf(r) <= Hours(response.time_window_hours)
                => response.suggestions[1].time_difference_minutes <= DiffOf(r)

\* No two stored entries of one user with the same track key and played_at.
NoDuplicateEntries ==
    \A i, j \in 1..Len(history) :
       (/\ i # j
        /\ history[i].user_id = history[j].user_id
        /\ history[i].track_id = history[j].track_id)
       => history[i].played_at # history[j].played_at

\* Every dated item of the session's run has its entry in the store.
AllStored(ses) ==
    \A k \in 1..Len(ses.items) :
       (~ses.items[k].nowplaying /\ ses.items[k].uts # 0)
       => ExistingEntries(history, ses.user_id, ses.items[k]) # {}

\* A run over stored events only ends without an entry added.
StoredRunAddsNothing ==
    \A s \in Sessions :
       (sessions[s].pc = "loop" /\ sessions'[s].pc = "done" /\ AllStored(sessions[s]))
       => /\ history' = history
          /\ sessions'[s].raised = "none"
          /\ sessions'[s].tracks_added = 0

\* C14: with sync runs one after another, no two stored entries of a user
\* ever share track key and played_at, also when a run's pages hold the
\* same event twice, and a run whose events are all stored adds nothing
\* and leaves the store as it was.
C14_SequentialSyncIdempotent ==
    []NoDuplicateEntries /\ [][StoredRunAddsNothing]_vars

C14_Witness ==
    \E s \in Sessions :
       /\ sessions[s].pc = "done"
       /\ Len(sessions[s].items) = 2
       /\ sessions[s].items[1] = sessions[s].items[2]
       /\ ~sessions[s].items[1].nowplaying
       /\ sessions[s].raised = "none"
       /\ sessions[s].tracks_added = 1
       /\ Len(history) = 2
       /\ NoDuplicateEntries

\* C20: however two sync runs of one user over overlapping events
\* interleave, the committed history never holds two entries of the user
\* with the same track key and played_at, and no sync ends in the failure
\* of the duplicate lookup.
C20_ConcurrentSyncsKeepHistoryUnique ==
    /\ NoDuplicateEntries
    /\ \A s \in Sessions :
          sessions[s].pc = "done" => sessions[s].raised # "MultipleResultsFound"

MatchingOps ==
    {"suggest_tracks_for_photo", "auto_suggest_mappings_for_memory",
     "get_track_suggestions"}

IsAutoSuggest == response.op = "auto_suggest_mappings_for_memory"

\* C13: auto_suggest_mappings_for_memory returns one entry for every photo
\* given, and the entry of a photo is a result of suggest_tracks_for_photo
\* for that photo alone with the same window and the limit 5, whatever the
\* other photos are; a play may be in the lists of several photos.
C13_PerPhotoSuggestions ==
    (IsAutoSuggest /\ response.raised = "none")
    => /\ DOMAIN response.suggestions_by_photo
             = {response.photos[k].id : k \in 1..Len(response.photos)}
       /\ \A k \in 1..Len(response.photos) :
             Returned(response.suggestions_by_photo[response.photos[k].id])
                \in SuggestOutcomes(response.user_id,
                                    response.photos[k].creation_time,
                                    response.time_window_hours, 5)

C13_Witness ==
    /\ IsAutoSuggest
    /\ response.raised = "none"
    /\ Len(response.photos) = 2
    /\ \E i \in DOMAIN response.suggestions_by_photo :
          \E j \in DOMAIN response.suggestions_by_photo :
             /\ i # j
             /\ Len(response.suggestions_by_photo[i]) = 2
             /\ Len(response.suggestions_by_photo[j]) = 1
             /\ \E n \in 1..2 :
                   response.suggestions_by_photo[j][1].track_id
                      = response.suggestions_by_photo[i][n].track_id

\* The memory holds one photo, taken at the given time, and one
\* automatically matched mapping, of that photo.
HoldsPhotoAndTrack(memory_id, creation_time) ==
    /\ Cardinality(PhotosOf(memory_id)) = 1
    /\ \A ph \in PhotosOf(memory_id) :
          /\ ph.creation_time = Stored(creation_time)
          /\ Cardinality({t \in mappings : t.memory_id = memory_id}) = 1
          /\ \A t \in mappings :
                t.memory_id = memory_id => (t.photo_id = ph.id /\ t.is_auto_suggested)

\* C17: create_memory with n >= 1 photos creates n memories of the caller,
\* each with one of the submitted photos and one automatically matched
\* mapping of that photo; with no photos it creates one memory without
\* photo and mapping.
C17_OneMemoryPerPhotoWithTrack ==
    (response.op = "create_memory" /\ response.status = 200)
    => /\ \A m \in memories : m.id \in response.created => m.user_id = response.user_id
       /\ IF response.creation_times = <<>>
          THEN /\ Cardinality(response.created) = 1
               /\ \A id \in response.created :
                     /\ PhotosOf(id) = {}
                     /\ {t \in mappings : t.memory_id = id} = {}
          ELSE /\ Cardinality(response.created) = Len(response.creation_times)
               /\ \E f \in [1..Len(response.creation_times) -> response.created] :
                     /\ \A i, j \in DOMAIN f : i # j => f[i] # f[j]
                     /\ \A k \in DOMAIN f :
                           HoldsPhotoAndTrack(f[k], response.creation_times[k])

\* C18: every mapping references a photo of the mapping's own memory and a
\* listening-history entry of the user who owns that memory.
C18_MappingsReferenceOwnRows ==
    \A t \in mappings :
       /\ \E ph \in photos : ph.id = t.photo_id /\ ph.memory_id = t.memory_id
       /\ \E m \in memories :
             /\ m.id = t.memory_id
             /\ \E r \in Rows(history) : r.id = t.track_id /\ r.user_id = m.user_id

\* The memory, or the memory of the mapping, exists and is another user's.
ForeignMemory(u, id) == \E m \in memories : m.id = id /\ m.user_id # u
ForeignMapping(u, id) ==
    \E t \in mappings : t.id = id /\ ForeignMemory(u, t.memory_id)

MemoryOps ==
    {"get_memory", "update_memory", "delete_memory", "get_memory_mappings",
     "create_mapping"}
MappingOps == {"get_mapping", "update_mapping", "delete_mapping"}

\* The request just answered is about a memory of another user.
ForeignRequest ==
    /\ response' # response
    /\ \/ response'.op \in MemoryOps /\ ForeignMemory(response'.user_id, response'.id)
       \/ response'.op \in MappingOps /\ ForeignMapping(response'.user_id, response'.id)

\* C19: get, update and delete of a memory, get, update, delete and
\* list-by-memory of mappings, and create_mapping, asked for by a user who
\* does not own the memory concerned, answer 404 and leave every memory,
\* photo and mapping as it was.
C19_ForeignRequestsRefused ==
    [][ForeignRequest
       => /\ response'.status = 404
          /\ memories' = memories
          /\ photos' = photos
          /\ mappings' = mappings]_vars

C19_Witness ==
    /\ response.op = "delete_mapping"
    /\ response.status = 404
    /\ ForeignMapping(response.user_id, response.id)

\* A fetched play is in the ranked list the slice is taken from.
Ranked(row) ==
    \E i \in 1..Len(RankedOfResponse) : RankedOfResponse[i].track_id = row.id

\* C21: a fetched play is in the untruncated result exactly when its
\* confidence score is at least 1; every returned suggestion has
\* time_difference_minutes below time_window_hours * 60; and a play exactly
\* time_window_hours before or after the photo is never returned.
C21_RankedIffScoreAtLeastOne ==
    (IsSuggest /\ response.raised = "none")
    => /\ \A i \in 1..Len(response.tracks) :
             Ranked(response.tracks[i])
             <=> Score(DiffOf(response.tracks[i]),
                       response.time_window_hours * 60).value >= 1
       /\ \A i \in 1..Len(response.suggestions) :
             response.suggestions[i].time_difference_minutes
                < response.time_window_hours * 60
       /\ \A r \in UserRows :
             GapOf(r) = Hours(response.time_window_hours) => ~Suggested(r)

C21_Witness ==
    /\ IsSuggest
    /\ response.raised = "none"
    /\ response.time_window_hours = 3
    /\ response.max_suggestions = DefaultMaxSuggestions
    /\ \E i \in 1..Len(response.tracks) :
          /\ GapOf(response.tracks[i]) = Hours(3)
          /\ ~Suggested(response.tracks[i])
    /\ response.suggestions # <<>>
    /\ Len(response.suggestions) = Len(RankedOfResponse)

IsCreated == response.op = "create_memory" /\ response.status = 200

\* The mappings the answered create_memory request added.
CreatedMappings == {t \in mappings : t.memory_id \in response.created}

\* The plays of the requesting user within 3 hours of a capture time.
PlaysNear(creation_time) ==
    {r \in UserRows : Abs(Instant(creation_time) - Instant(r.played_at)) <= Hours(3)}

\* The score of a play for a capture time and the 3-hour window.
PlayScore(creation_time, row) ==
    Score(calculate_time_difference_minutes(creation_time, row.played_at).value,
          180).value

\* The mapping is the one of the best play near the capture time.
BestPlayMapped(t, creation_time) ==
    \E r \in PlaysNear(creation_time) :
       /\ r.id = t.track_id
       /\ t.confidence_score = PlayScore(creation_time, r)
       /\ \A q \in PlaysNear(creation_time) :
             /\ PlayScore(creation_time, q) <= t.confidence_score
             /\ PlayScore(creation_time, q) = t.confidence_score
                => Instant(r.played_at) <= Instant(q.played_at)

\* C22: every mapping create_memory adds is auto-suggested, links the photo
\* and the memory of its step, references a play of the requesting user
\* within 3 hours of the photo's creation_time, and stores a score in 1..100
\* that is the highest score of that user's plays in the window (the
\* earliest-played among equal maxima); a photo none of whose plays scores
\* above 0 gets no mapping.  (The first request on empty tables gives the
\* photo at position k the ids k.)
C22_AutoMappingIsBestInWindow ==
    IsCreated
    => /\ \A t \in CreatedMappings :
             /\ t.is_auto_suggested
             /\ t.photo_id \in 1..Len(response.creation_times)
             /\ \E ph \in photos : ph.id = t.photo_id /\ ph.memory_id = t.memory_id
             /\ t.confidence_score \in 1..100
             /\ BestPlayMapped(t, response.creation_times[t.photo_id])
       /\ \A k \in 1..Len(response.creation_times) :
             (\A r \in UserRows : PlayScore(response.creation_times[k], r) <= 0)
             => ~\E t \in CreatedMappings : t.photo_id = k

IsUpdated == response.op = "update_mapping" /\ response.status = 200
UpdatedMapping == {t \in mappings : t.id = response.id}

\* C23: after a successful update_mapping whose body sets track_id the
\* mapping's is_auto_suggested is False, also when the body sets
\* is_auto_suggested to true; a body that does not set track_id leaves the
\* mapping's track_id as it was; and no update_mapping changes a mapping's
\* photo_id, memory_id or confidence_score.
C23_TrackEditClearsAutoFlag ==
    [][response'.op = "update_mapping"
       => /\ \A t \in mappings' :
                (t.id = response'.id /\ response'.status = 200)
                => /\ "track_id" \in response'.body.fields => ~t.is_auto_suggested
                   /\ "track_id" \notin response'.body.fields
                      => \E b \in mappings : b.id = t.id /\ b.track_id = t.track_id
          /\ \A t \in mappings' :
                \E b \in mappings :
                   /\ b.id = t.id
                   /\ b.photo_id = t.photo_id
                   /\ b.memory_id = t.memory_id
                   /\ b.confidence_score = t.confidence_score
          /\ {t.id : t \in mappings'} = {b.id : b \in mappings}]_vars

C23_Witness ==
    /\ IsUpdated
    /\ response.body.fields = {"track_id", "is_auto_suggested"}
    /\ response.body.is_auto_suggested
    /\ \E t \in UpdatedMapping :
          t.track_id = response.body.track_id /\ ~t.is_auto_suggested

IsByDate == response.op = "get_tracks_by_date" /\ response.status = 200

\* The first second of the requested date.
DateStart == strptime(response.date).value * Day

\* The caller's plays on the requested date.
PlayedThatDay ==
    {r \in UserRows : DateStart <= r.played_at.clock /\ r.played_at.clock < DateStart + Day}

SameTrackAndArtist(r, q) ==
    /\ lower(r.track_name) = lower(q.track_name)
    /\ lower(r.artist_name) = lower(q.artist_name)

\* C24: get_tracks_by_date returns plays of the caller with day_start <=
\* played_at < day_start + 1 day, in ascending played_at order, no two of
\* them with the same (track_name, artist_name) up to case; the entry of a
\* key is as early as every play of that key on the date, and every key
\* played on the date has an entry.
C24_ByDateUniqueEarliest ==
    IsByDate
    => /\ \A i \in 1..Len(response.tracks) : response.tracks[i] \in PlayedThatDay
       /\ \A i, j \in 1..Len(response.tracks) :
             i < j
             => /\ response.tracks[i].played_at.clock <= response.tracks[j].played_at.clock
                /\ ~SameTrackAndArtist(response.tracks[i], response.tracks[j])
       /\ \A r \in PlayedThatDay :
             \E i \in 1..Len(response.tracks) :
                /\ SameTrackAndArtist(response.tracks[i], r)
                /\ response.tracks[i].played_at.clock <= r.played_at.clock

C24_Witness ==
    /\ IsByDate
    /\ response.date = "1970-01-01"
    /\ Len(response.tracks) = 1
    /\ Cardinality(PlayedThatDay) = 2
    /\ \E r \in PlayedThatDay : r.track_name # response.tracks[1].track_name
    /\ \E r \in UserRows : r.played_at.clock = Day

====
